---- MODULE Spec2Model ----
(***************************************************************************)
(* Model of tinker_cookbook/recipes/code_rl/code_quality_grader.py:        *)
(* CodeQualityGrader (cache + LRU order + sampler + stats behind one       *)
(* asyncio.Lock), driven by concurrent callers of grade().                 *)
(*                                                                         *)
(* Numbers: scores are in tenths (5 is 0.5, 17 is 1.7); a random draw d    *)
(* stands for d / RngMod, so draws range over [0, 1) and include 0.0,      *)
(* and a sample rate r stands for r / RngMod (RngMod is 1.0).              *)
(***************************************************************************)
EXTENDS Integers, Sequences, FiniteSets, TLC

\* ------------------------------------------------------------------ bounds
NumTasks == 2
MaxCalls == 3
RngMod == 4

\* ------------------------------------------------------------ value sets
Tasks == 1..NumTasks
NoTask == 0

None == "None"
Raised == "Raised"

\* a local of grade() that holds nothing: before the call reaches the
\* assignment and after it is over.  A snippet and a fingerprint are never
\* empty; a score s is held as <<s>>, an exception on its way out as
\* <<Raised>>.
Unset == <<>>

WS == {" ", "\n", "\t"}

\* the code snippets callers submit, as character sequences
Codes ==
  { <<"a">>, <<"a", " ", "#", "x">>, <<"b">>, <<"c">> }

Questions == {None, "q"}

\* what grader_fn may return (a float, not necessarily in range)
BackendScores == {5, 17}

DefaultScores == {0}
ValidSampleRates == {0, RngMod \div 2, RngMod}
ValidCacheSizes == {1, 2}

\* ------------------------------------------------------- normalize / hash
RECURSIVE strip_comments(_, _)
\* re.sub(r'#.*$', '', code, flags=re.MULTILINE)
strip_comments(s, in_comment) ==
  IF s = <<>> THEN <<>>
  ELSE LET ch == Head(s) IN
       IF ch = "\n" THEN <<ch>> \o strip_comments(Tail(s), FALSE)
       ELSE IF in_comment \/ ch = "#" THEN strip_comments(Tail(s), TRUE)
       ELSE <<ch>> \o strip_comments(Tail(s), FALSE)

IsTriple(s, i, q) ==
  /\ i + 2 <= Len(s)
  /\ s[i] = q /\ s[i + 1] = q /\ s[i + 2] = q

RECURSIVE blank_triple(_, _, _)
\* re.sub(r'QQQ[\s\S]*?QQQ', 'QQQQQQ', code): leftmost, non-greedy, non-overlapping
blank_triple(s, i, q) ==
  IF i > Len(s) THEN <<>>
  ELSE LET closers == { j \in (i + 3)..Len(s) : IsTriple(s, j, q) } IN
       IF IsTriple(s, i, q) /\ closers # {}
       THEN LET j == CHOOSE k \in closers : \A m \in closers : k <= m
            IN <<q, q, q, q, q, q>> \o blank_triple(s, j + 3, q)
       ELSE <<s[i]>> \o blank_triple(s, i + 1, q)

RECURSIVE collapse_ws(_, _)
\* re.sub(r'\s+', ' ', code)
collapse_ws(s, in_ws) ==
  IF s = <<>> THEN <<>>
  ELSE IF Head(s) \in WS
       THEN (IF in_ws THEN <<>> ELSE <<" ">>) \o collapse_ws(Tail(s), TRUE)
       ELSE <<Head(s)>> \o collapse_ws(Tail(s), FALSE)

RECURSIVE lstrip(_)
lstrip(s) == IF s # <<>> /\ Head(s) \in WS THEN lstrip(Tail(s)) ELSE s

RECURSIVE rstrip(_)
rstrip(s) ==
  IF s # <<>> /\ s[Len(s)] \in WS THEN rstrip(SubSeq(s, 1, Len(s) - 1)) ELSE s

\* mutant: comments are kept
normalize_code_keep_comments(code) ==
  LET c2 == blank_triple(code, 1, "\"")
      c3 == blank_triple(c2, 1, "'")
      c4 == collapse_ws(c3, FALSE)
  IN  rstrip(lstrip(c4))

normalize_code(code) ==
  LET c1 == strip_comments(code, FALSE)
      c2 == blank_triple(c1, 1, "\"")
      c3 == blank_triple(c2, 1, "'")
      c4 == collapse_ws(c3, FALSE)
  IN  rstrip(lstrip(c4))

\* hashlib.md5(...).hexdigest(): an opaque digest, taken to be collision-free
\* on the snippets of the model
md5(text) == <<"md5", text>>

hash_code(code) == md5(normalize_code(code))

Hashes == { hash_code(c) : c \in Codes }


\* -------------------------------------------------------------- the state
VARIABLES
  sample_rate,    \* self.sample_rate
  cache_size,     \* self.cache_size
  default_score,  \* self.default_score
  cache,          \* self._cache: fingerprint -> score
  cache_order,    \* self._cache_order: fingerprints, least recently used first
  rng,            \* self._rng: the generator's state
  stats,          \* self._stats
  lock,           \* self._lock: the task holding it, or NoTask
  pc,             \* where each caller is inside grade()
  code,           \* grade(): argument code
  question,       \* grade(): argument question
  code_hash,      \* grade(): local code_hash
  score,          \* grade(): local score
  path,           \* grade(): the branch the call took
  ret,            \* grade(): the value handed to the caller
  uses,           \* history: every fingerprint hit or put so far, by last use
  hist,           \* history: the previous finished call of a sequential caller
  twin,           \* a second CodeQualityGrader instance, or None
  trace,          \* history: the seeds and sampling decisions of both instances
  parsing,        \* parse_score_from_response(raw): its argument and progress
  invoked,        \* history: how many times the backend has been invoked
  adapter,        \* grade_code_with_claude / grade_code_with_gemini in progress
  edits           \* two code snippets, the second edited from the first

config == <<sample_rate, cache_size, default_score>>
shared == <<cache, cache_order, rng, stats>>
locals == <<code, question, code_hash, score, path, ret>>
vars == <<sample_rate, cache_size, default_score, cache, cache_order, rng,
          stats, lock, pc, code, question, code_hash, score, path, ret,
          uses, hist, twin, trace, parsing, invoked, adapter, edits>>
\* everything of the grader, and what the parser of a response leaves alone
grader == <<sample_rate, cache_size, default_score, cache, cache_order, rng,
            stats, lock, pc, code, question, code_hash, score, path, ret,
            uses, hist, twin, trace, invoked, adapter, edits>>

EmptyCache == [k \in {} |-> 0]

\* GraderStats()
GraderStats ==
  [total_requests |-> 0, cache_hits |-> 0, sampled_out |-> 0, api_calls |-> 0]

NoHist ==
  [calls |-> 0, code |-> Unset, ret |-> Unset, path |-> None, api0 |-> 0, api1 |-> 0]

\* CodeQualityGrader.__init__, for the parameters given; no caller has started
Construct(rate, size, dflt, seed_state) ==
  /\ sample_rate = rate
  /\ cache_size = size
  /\ default_score = dflt
  /\ cache = EmptyCache
  /\ cache_order = <<>>
  /\ rng = seed_state
  /\ stats = GraderStats
  /\ lock = NoTask
  /\ pc = [t \in Tasks |-> "idle"]
  /\ code = [t \in Tasks |-> Unset]
  /\ question = [t \in Tasks |-> None]
  /\ code_hash = [t \in Tasks |-> Unset]
  /\ score = [t \in Tasks |-> Unset]
  /\ path = [t \in Tasks |-> None]
  /\ ret = [t \in Tasks |-> Unset]
  /\ uses = <<>>
  /\ hist = NoHist
  /\ invoked = 0

\* the process holds one instance only
Alone ==
  twin = None /\ trace = None /\ parsing = None /\ adapter = None /\ edits = None

\* a grader built with parameters in the documented ranges; random.Random(seed)
\* starts in a state fixed by the seed (any state when seed is None)
Init ==
  /\ \E rate \in ValidSampleRates, size \in ValidCacheSizes,
        dflt \in DefaultScores, seed_state \in 0..(RngMod - 1) :
       Construct(rate, size, dflt, seed_state)
  /\ Alone

\* ------------------------------------------------------- cache operations
Range(seq) == { seq[i] : i \in 1..Len(seq) }

\* list.remove(x): drops the first occurrence (the caller checks membership)
list_remove(seq, x) ==
  LET i == CHOOSE k \in 1..Len(seq) : seq[k] = x /\ \A m \in 1..(k - 1) : seq[m] # x
  IN  SubSeq(seq, 1, i - 1) \o SubSeq(seq, i + 1, Len(seq))

\* dict.pop(key, None)
dict_pop(c, key) == [k \in DOMAIN c \ {key} |-> c[k]]

\* self._cache[key] = value
dict_set(c, key, value) ==
  [k \in DOMAIN c \cup {key} |-> IF k = key THEN value ELSE c[k]]

\* mutants of the loop test: one entry of slack; evicting at capacity
over_capacity_slack(c, size) == Cardinality(DOMAIN c) > size + 1
over_capacity_eager(c, size) == Cardinality(DOMAIN c) >= size

\* the loop test of _evict_if_needed
over_capacity(c, size) == Cardinality(DOMAIN c) > size

\* mutant: a cache over capacity is emptied
evict_if_needed_flush(c, order, size) ==
  IF over_capacity(c, size)
  THEN [cache |-> EmptyCache, order |-> <<>>, raised |-> FALSE]
  ELSE [cache |-> c, order |-> order, raised |-> FALSE]

RECURSIVE evict_if_needed(_, _, _)
\* _evict_if_needed: the cache and order it leaves, and whether list.pop(0)
\* raised IndexError on an empty list
evict_if_needed(c, order, size) ==
  IF over_capacity(c, size)
  THEN IF order = <<>>
       THEN [cache |-> c, order |-> order, raised |-> TRUE]
       ELSE evict_if_needed(dict_pop(c, Head(order)), Tail(order), size)
  ELSE [cache |-> c, order |-> order, raised |-> FALSE]

\* mutant: a put that keeps the score already stored (first put wins)
cache_insert_keep(c, order, h, s) ==
  LET o1 == IF h \in DOMAIN c THEN list_remove(order, h) ELSE order
  IN  [cache |-> IF h \in DOMAIN c THEN c ELSE dict_set(c, h, s),
       order |-> Append(o1, h)]

\* mutant: a put that appends without removing the old position
cache_insert_append(c, order, h, s) ==
  [cache |-> dict_set(c, h, s), order |-> Append(order, h)]

\* lines 118-122 of _add_to_cache: everything before the eviction
cache_insert(c, order, h, s) ==
  LET o1 == IF h \in DOMAIN c THEN list_remove(order, h) ELSE order
  IN  [cache |-> dict_set(c, h, s), order |-> Append(o1, h)]

\* mutant: a hit that leaves the recency order alone (FIFO)
touch_none(order, h) == order

\* lines 148-149: move-to-end on a cache hit
touch(order, h) == Append(list_remove(order, h), h)

\* ----------------------------------------------------------------- sampler
\* random.Random.random(): advance the state, return a float in [0, 1)
rng_next(state) == (state + 3) % RngMod

\* mutant: the comparison turned around
should_skip_inverted(draw, rate) == draw < rate

\* the test of line 153: skip when the draw exceeds the sample rate
should_skip(draw, rate) == draw > rate

\* ----------------------------------------------------------------- grade()
Waiting == { t \in Tasks : pc[t] \in {"acquire1", "count"} }

\* a caller invokes grade(code, question) and reaches `async with self._lock`
Call(t, c, q, max) ==
  /\ pc[t] = "idle"
  /\ stats.total_requests + Cardinality(Waiting) < max
  /\ pc' = [pc EXCEPT ![t] = "acquire1"]
  /\ code' = [code EXCEPT ![t] = c]
  /\ question' = [question EXCEPT ![t] = q]
  /\ UNCHANGED <<config, shared, lock, code_hash, score, path, ret>>

\* mutant: an acquire that does not wait for the holder
lock_ignored == TRUE

\* asyncio.Lock.locked() is false: acquire goes through (lines 140, 174)
lock_free == lock = NoTask

\* asyncio.Lock.acquire at line 140
Acquire1(t) ==
  /\ pc[t] = "acquire1"
  /\ lock_free
  /\ lock' = t
  /\ pc' = [pc EXCEPT ![t] = "count"]
  /\ UNCHANGED <<config, shared, locals>>

\* mutant: a fingerprint that takes the question in
CountWithQuestion(t) ==
  /\ pc[t] = "count"
  /\ stats' = [stats EXCEPT !.total_requests = @ + 1]
  /\ code_hash' = [code_hash EXCEPT
                     ![t] = md5(normalize_code(code[t]) \o <<question[t]>>)]
  /\ pc' = [pc EXCEPT ![t] = "check"]
  /\ UNCHANGED <<config, cache, cache_order, rng, lock, code, question, score,
                 path, ret>>

\* lines 141-144
Count(t) ==
  /\ pc[t] = "count"
  /\ stats' = [stats EXCEPT !.total_requests = @ + 1]
  /\ code_hash' = [code_hash EXCEPT ![t] = hash_code(code[t])]
  /\ pc' = [pc EXCEPT ![t] = "check"]
  /\ UNCHANGED <<config, cache, cache_order, rng, lock, code, question, score,
                 path, ret>>

\* grade() hands value to its caller along branch p
Returns(t, p, value) ==
  /\ pc' = [pc EXCEPT ![t] = "returned"]
  /\ path' = [path EXCEPT ![t] = p]
  /\ ret' = [ret EXCEPT ![t] = <<value>>]

\* an exception leaves grade()
Raises(t) ==
  /\ pc' = [pc EXCEPT ![t] = "raised"]
  /\ path' = [path EXCEPT ![t] = "raised"]
  /\ ret' = [ret EXCEPT ![t] = <<Raised>>]

\* mutant: a hit that is served but not counted
CacheHitUncounted(t) ==
  /\ pc[t] = "check"
  /\ code_hash[t] \in DOMAIN cache
  /\ lock' = NoTask
  /\ cache_order' = touch(cache_order, code_hash[t])
  /\ Returns(t, "hit", cache[code_hash[t]])
  /\ UNCHANGED <<config, cache, rng, stats, code, question, code_hash, score>>

\* mutant: a hit that returns the default score
CacheHitDefault(t) ==
  /\ pc[t] = "check"
  /\ code_hash[t] \in DOMAIN cache
  /\ stats' = [stats EXCEPT !.cache_hits = @ + 1]
  /\ lock' = NoTask
  /\ cache_order' = touch(cache_order, code_hash[t])
  /\ Returns(t, "hit", default_score)
  /\ UNCHANGED <<config, cache, rng, code, question, code_hash, score>>

\* mutant: a hit that asks the sampler first
CacheHitDrawing(t) ==
  /\ pc[t] = "check"
  /\ code_hash[t] \in DOMAIN cache
  /\ rng' = rng_next(rng)
  /\ stats' = [stats EXCEPT !.cache_hits = @ + 1]
  /\ lock' = NoTask
  /\ cache_order' = touch(cache_order, code_hash[t])
  /\ Returns(t, "hit", cache[code_hash[t]])
  /\ UNCHANGED <<config, cache, code, question, code_hash, score>>

\* lines 145-150: cache hit; leaving the with-block releases the lock
CacheHit(t) ==
  /\ pc[t] = "check"
  /\ code_hash[t] \in DOMAIN cache
  /\ stats' = [stats EXCEPT !.cache_hits = @ + 1]
  /\ lock' = NoTask
  /\ IF code_hash[t] \in Range(cache_order)
     THEN /\ cache_order' = touch(cache_order, code_hash[t])
          /\ Returns(t, "hit", cache[code_hash[t]])
     ELSE \* list.remove raises ValueError
          /\ UNCHANGED cache_order
          /\ Raises(t)
  /\ UNCHANGED <<config, cache, rng, code, question, code_hash, score>>

\* mutant: the skipped request stores the default score
SampledOutCaching(t) ==
  /\ pc[t] = "check"
  /\ code_hash[t] \notin DOMAIN cache
  /\ rng' = rng_next(rng)
  /\ should_skip(rng', sample_rate)
  /\ stats' = [stats EXCEPT !.sampled_out = @ + 1]
  /\ lock' = NoTask
  /\ cache' = dict_set(cache, code_hash[t], default_score)
  /\ cache_order' = Append(cache_order, code_hash[t])
  /\ Returns(t, "sampled_out", default_score)
  /\ UNCHANGED <<config, code, question, code_hash, score>>

\* mutant: a skipped request is not counted
SampledOutUncounted(t) ==
  /\ pc[t] = "check"
  /\ code_hash[t] \notin DOMAIN cache
  /\ rng' = rng_next(rng)
  /\ should_skip(rng', sample_rate)
  /\ lock' = NoTask
  /\ Returns(t, "sampled_out", default_score)
  /\ UNCHANGED <<config, cache, cache_order, stats, code, question, code_hash, score>>

\* mutant: a skipped request returns inside the with-block without leaving it
SampledOutHoldingLock(t) ==
  /\ pc[t] = "check"
  /\ code_hash[t] \notin DOMAIN cache
  /\ rng' = rng_next(rng)
  /\ should_skip(rng', sample_rate)
  /\ stats' = [stats EXCEPT !.sampled_out = @ + 1]
  /\ Returns(t, "sampled_out", default_score)
  /\ UNCHANGED <<config, cache, cache_order, lock, code, question, code_hash, score>>

\* lines 153-155: cache miss, the draw says skip
SampledOut(t) ==
  /\ pc[t] = "check"
  /\ code_hash[t] \notin DOMAIN cache
  /\ rng' = rng_next(rng)
  /\ should_skip(rng', sample_rate)
  /\ stats' = [stats EXCEPT !.sampled_out = @ + 1]
  /\ lock' = NoTask
  /\ Returns(t, "sampled_out", default_score)
  /\ UNCHANGED <<config, cache, cache_order, code, question, code_hash, score>>

\* mutant: the backend call moved inside the with-block
SampledInHoldingLock(t) ==
  /\ pc[t] = "check"
  /\ code_hash[t] \notin DOMAIN cache
  /\ rng' = rng_next(rng)
  /\ ~should_skip(rng', sample_rate)
  /\ stats' = [stats EXCEPT !.api_calls = @ + 1]
  /\ pc' = [pc EXCEPT ![t] = "backend"]
  /\ UNCHANGED <<config, cache, cache_order, lock, locals>>

\* mutant: a request waits while the same fingerprint is being graded
SampledInCoalesced(t) ==
  /\ pc[t] = "check"
  /\ code_hash[t] \notin DOMAIN cache
  /\ \A u \in Tasks \ {t} : ~(pc[u] = "backend" /\ code_hash[u] = code_hash[t])
  /\ rng' = rng_next(rng)
  /\ ~should_skip(rng', sample_rate)
  /\ stats' = [stats EXCEPT !.api_calls = @ + 1]
  /\ lock' = NoTask
  /\ pc' = [pc EXCEPT ![t] = "backend"]
  /\ UNCHANGED <<config, cache, cache_order, locals>>

\* mutant: the backend is invoked without being counted
SampledInUncounted(t) ==
  /\ pc[t] = "check"
  /\ code_hash[t] \notin DOMAIN cache
  /\ rng' = rng_next(rng)
  /\ ~should_skip(rng', sample_rate)
  /\ lock' = NoTask
  /\ pc' = [pc EXCEPT ![t] = "backend"]
  /\ UNCHANGED <<config, cache, cache_order, stats, locals>>

\* lines 153, 158: cache miss, the draw says grade; the with-block ends
SampledIn(t) ==
  /\ pc[t] = "check"
  /\ code_hash[t] \notin DOMAIN cache
  /\ rng' = rng_next(rng)
  /\ ~should_skip(rng', sample_rate)
  /\ stats' = [stats EXCEPT !.api_calls = @ + 1]
  /\ lock' = NoTask
  /\ pc' = [pc EXCEPT ![t] = "backend"]
  /\ UNCHANGED <<config, cache, cache_order, locals>>

\* lines 161-168: grader_fn returns s
BackendReturns(t, s) ==
  /\ pc[t] = "backend"
  /\ score' = [score EXCEPT ![t] = <<s>>]
  /\ path' = [path EXCEPT ![t] = "graded"]
  /\ pc' = [pc EXCEPT ![t] = "acquire2"]
  /\ UNCHANGED <<config, shared, lock, code, question, code_hash, ret>>

\* mutant: a failed backend call is taken back out of the counter
BackendRaisesUncounted(t) ==
  /\ pc[t] = "backend"
  /\ score' = [score EXCEPT ![t] = <<default_score>>]
  /\ path' = [path EXCEPT ![t] = "failed"]
  /\ pc' = [pc EXCEPT ![t] = "acquire2"]
  /\ stats' = [stats EXCEPT !.api_calls = @ - 1]
  /\ UNCHANGED <<config, cache, cache_order, rng, lock, code, question,
                 code_hash, ret>>

\* lines 161-171: grader_fn (or inspect.signature) raises an Exception
BackendRaises(t) ==
  /\ pc[t] = "backend"
  /\ score' = [score EXCEPT ![t] = <<default_score>>]
  /\ path' = [path EXCEPT ![t] = "failed"]
  /\ pc' = [pc EXCEPT ![t] = "acquire2"]
  /\ UNCHANGED <<config, shared, lock, code, question, code_hash, ret>>

\* mutant: the cancellation is caught like a backend failure (as it would be
\* if CancelledError were an Exception)
CancelCaught(t) ==
  /\ pc[t] = "backend"
  /\ score' = [score EXCEPT ![t] = <<default_score>>]
  /\ path' = [path EXCEPT ![t] = "cancelled"]
  /\ pc' = [pc EXCEPT ![t] = "acquire2"]
  /\ UNCHANGED <<config, shared, lock, code, question, code_hash, ret>>

\* lines 161-171: the task is cancelled while it awaits asyncio.to_thread, the
\* only point where grade() is suspended with work pending.  CancelledError is
\* a BaseException, so "except Exception" (line 169) lets it through and it
\* leaves grade(); the worker thread's result is dropped.
Cancel(t) ==
  /\ pc[t] = "backend"
  /\ pc' = [pc EXCEPT ![t] = "cancelled"]
  /\ path' = [path EXCEPT ![t] = "cancelled"]
  /\ ret' = [ret EXCEPT ![t] = <<Raised>>]
  /\ UNCHANGED <<config, shared, lock, code, question, code_hash, score>>

\* asyncio.Lock.acquire at line 174
Acquire2(t) ==
  /\ pc[t] = "acquire2"
  /\ lock_free
  /\ lock' = t
  /\ pc' = [pc EXCEPT ![t] = "add"]
  /\ UNCHANGED <<config, shared, locals>>

\* line 175, _add_to_cache lines 118-122
AddToCache(t) ==
  /\ pc[t] = "add"
  /\ IF code_hash[t] \in DOMAIN cache /\ code_hash[t] \notin Range(cache_order)
     THEN \* list.remove raises ValueError; the with-block releases the lock
          /\ lock' = NoTask
          /\ Raises(t)
          /\ UNCHANGED <<cache, cache_order>>
     ELSE LET r == cache_insert(cache, cache_order, code_hash[t], score[t][1]) IN
          /\ cache' = r.cache
          /\ cache_order' = r.order
          /\ pc' = [pc EXCEPT ![t] = "evict"]
          /\ UNCHANGED <<lock, path, ret>>
  /\ UNCHANGED <<config, rng, stats, code, question, code_hash, score>>

\* _add_to_cache line 123, then lines 175-177: release and return score
Evict(t) ==
  /\ pc[t] = "evict"
  /\ LET r == evict_if_needed(cache, cache_order, cache_size) IN
     /\ cache' = r.cache
     /\ cache_order' = r.order
     /\ IF r.raised THEN Raises(t) ELSE Returns(t, path[t], score[t][1])
  /\ lock' = NoTask
  /\ UNCHANGED <<config, rng, stats, code, question, code_hash, score>>

\* the caller takes the result; the call's locals are gone
Done(t) ==
  /\ pc[t] \in {"returned", "raised", "cancelled"}
  /\ pc' = [pc EXCEPT ![t] = "idle"]
  /\ code' = [code EXCEPT ![t] = Unset]
  /\ question' = [question EXCEPT ![t] = None]
  /\ code_hash' = [code_hash EXCEPT ![t] = Unset]
  /\ score' = [score EXCEPT ![t] = Unset]
  /\ path' = [path EXCEPT ![t] = None]
  /\ ret' = [ret EXCEPT ![t] = Unset]
  /\ UNCHANGED <<config, shared, lock>>

\* ------------------------------------------------------------- histories
\* the fingerprint a step used (hit or put), if any
Hit(t) == pc[t] = "check" /\ pc'[t] = "returned" /\ path'[t] = "hit"
Put(t) == pc[t] = "add" /\ pc'[t] = "evict"

ObserveUses ==
  IF \E t \in Tasks : Hit(t) \/ Put(t)
  THEN LET t == CHOOSE u \in Tasks : Hit(u) \/ Put(u)
           h == code_hash[t]
       IN  uses' = Append(SelectSeq(uses, LAMBDA x : x # h), h)
  ELSE UNCHANGED uses

\* for one sequential caller: the call that finished before the current one
\* (its code, result, and the api_calls counter when it began), and
\* the api_calls counter when the current one began
ObserveCalls(t) ==
  IF pc[t] = "idle" /\ pc'[t] = "acquire1"
  THEN hist' = [hist EXCEPT !.api1 = stats.api_calls]
  ELSE IF pc[t] \in {"returned", "raised"} /\ pc'[t] = "idle"
  THEN hist' = [calls |-> hist.calls + 1, code |-> code[t], ret |-> ret[t],
                path |-> path[t], api0 |-> hist.api1, api1 |-> hist.api1]
  ELSE UNCHANGED hist

\* history: one more invocation for every caller that leaves the first
\* with-block towards the backend (lines 161-169 start the backend with no
\* suspension point in between)
ObserveInvocations ==
  invoked' = invoked + Cardinality({t \in Tasks : pc[t] # "backend" /\ pc'[t] = "backend"})

\* ------------------------------------------------------------ concurrent
\* the inputs of the concurrent runs
ConcCodes == { <<"a">>, <<"b">> }
ConcQuestions == {None}
ConcScores == {5}

\* a step of the grader, with the histories that watch concurrent runs
Conc(A) ==
  /\ A /\ ObserveUses /\ ObserveInvocations
  /\ UNCHANGED <<hist, twin, trace, parsing, adapter, edits>>

Next ==
  \E t \in Tasks :
    \/ Conc(\E c \in ConcCodes, q \in ConcQuestions : Call(t, c, q, MaxCalls))
    \/ Conc(Acquire1(t))
    \/ Conc(Count(t))
    \/ Conc(CacheHit(t))
    \/ Conc(SampledOut(t))
    \/ Conc(SampledIn(t))
    \/ Conc(\E s \in ConcScores : BackendReturns(t, s))
    \/ Conc(BackendRaises(t))
    \/ Conc(Acquire2(t))
    \/ Conc(AddToCache(t))
    \/ Conc(Evict(t))
    \/ Conc(Done(t))

Spec == Init /\ [][Next]_vars

\* ------------------------------------------------------------ sequential
\* one caller, one call at a time, one more call than the concurrent runs
Solo(A) ==
  /\ A /\ ObserveUses /\ ObserveCalls(1) /\ ObserveInvocations
  /\ UNCHANGED <<twin, trace, parsing, adapter, edits>>

SeqNext ==
  \/ Solo(\E c \in Codes, q \in Questions : Call(1, c, q, MaxCalls + 1))
  \/ Solo(Acquire1(1))
  \/ Solo(Count(1))
  \/ Solo(CacheHit(1))
  \/ Solo(SampledOut(1))
  \/ Solo(SampledIn(1))
  \/ Solo(\E s \in BackendScores : BackendReturns(1, s))
  \/ Solo(BackendRaises(1))
  \/ Solo(Acquire2(1))
  \/ Solo(AddToCache(1))
  \/ Solo(Evict(1))
  \/ Solo(Done(1))

SpecSeq == Init /\ [][SeqNext]_vars

\* ------------------------------------------------- callers with questions
\* concurrent callers that pass a question or none (line 128)
AskNext ==
  \E t \in Tasks :
    \/ Conc(\E c \in ConcCodes, q \in Questions : Call(t, c, q, MaxCalls))
    \/ Conc(Acquire1(t))
    \/ Conc(Count(t))
    \/ Conc(CacheHit(t))
    \/ Conc(SampledOut(t))
    \/ Conc(SampledIn(t))
    \/ Conc(\E s \in ConcScores : BackendReturns(t, s))
    \/ Conc(BackendRaises(t))
    \/ Conc(Acquire2(t))
    \/ Conc(AddToCache(t))
    \/ Conc(Evict(t))
    \/ Conc(Done(t))

SpecAsk == Init /\ [][AskNext]_vars

\* --------------------------------------------------------- slow backend
\* The event loop runs every task that is ready, and asyncio.Lock wakes its
\* waiters in FIFO order, so a waiter is not passed over forever; nothing is
\* assumed about the backend, which may never return.  Each of these steps
\* moves its caller, so fairness is stated over pc.
SlowBackendFairness ==
  \A t \in Tasks :
    /\ SF_pc(Conc(Acquire1(t)))
    /\ WF_pc(Conc(Count(t)))
    /\ WF_pc(Conc(CacheHit(t)))
    /\ WF_pc(Conc(SampledOut(t)))
    /\ WF_pc(Conc(SampledIn(t)))
    /\ SF_pc(Conc(Acquire2(t)))
    /\ WF_pc(Conc(AddToCache(t)))
    /\ WF_pc(Conc(Evict(t)))

SpecSlowBackend == Init /\ [][Next]_vars /\ SlowBackendFairness

\* ------------------------------------------------ a backend that answers
\* as above, and every backend invocation ends: grader_fn returns or raises
BackendFairness ==
  \A t \in Tasks :
    WF_pc(\/ Conc(\E s \in ConcScores : BackendReturns(t, s))
          \/ Conc(BackendRaises(t)))

SpecFair == Init /\ [][Next]_vars /\ SlowBackendFairness /\ BackendFairness

\* ------------------------------------------------- callers can be cancelled
\* ------------------------------------ concurrent callers, one fingerprint
\* two spellings of one normalized text, and two backend answers
RaceCodes == { <<"a">>, <<"a", " ", "#", "x">> }

RaceNext ==
  \E t \in Tasks :
    \/ Conc(\E c \in RaceCodes, q \in ConcQuestions : Call(t, c, q, MaxCalls))
    \/ Conc(Acquire1(t))
    \/ Conc(Count(t))
    \/ Conc(CacheHit(t))
    \/ Conc(SampledOut(t))
    \/ Conc(SampledIn(t))
    \/ Conc(\E s \in BackendScores : BackendReturns(t, s))
    \/ Conc(BackendRaises(t))
    \/ Conc(Acquire2(t))
    \/ Conc(AddToCache(t))
    \/ Conc(Evict(t))
    \/ Conc(Done(t))

SpecRace == Init /\ [][RaceNext]_vars

CancelNext ==
  \/ Next
  \/ \E t \in Tasks : Conc(Cancel(t))

SpecCancel == Init /\ [][CancelNext]_vars

\* ------------------------------------------------------------ two instances
\* seeds given to the constructor: <<n>> is seed=n, <<>> is seed=None, which
\* asks for process entropy
Seeds == { <<>>, <<1>>, <<42>> }

\* mutant: the generator ignores its seed
RandomUnseeded(seed, state) == state \in 0..(RngMod - 1)

\* line 102, random.Random(seed): the states the generator can start in
Random(seed, state) ==
  IF seed = <<>> THEN state \in 0..(RngMod - 1) ELSE state = seed[1] % RngMod

\* lines 95-104: the attributes __init__ gives the second instance
TwinConstruct(rate, size, dflt, seed_state) ==
  [sample_rate |-> rate, cache_size |-> size, default_score |-> dflt,
   cache |-> EmptyCache, cache_order |-> <<>>, rng |-> seed_state,
   stats |-> GraderStats, lock |-> NoTask]

\* both instances get the same sample_rate, cache_size and default_score; the
\* first is given a seed, the second any seed or none
PairInit ==
  \E rate \in ValidSampleRates, size \in ValidCacheSizes, dflt \in DefaultScores,
     seed1 \in Seeds \ {<<>>}, seed2 \in Seeds, state1 \in 0..(RngMod - 1),
     state2 \in 0..(RngMod - 1) :
    /\ Random(seed1, state1)
    /\ Random(seed2, state2)
    /\ Construct(rate, size, dflt, state1)
    /\ twin = TwinConstruct(rate, size, dflt, state2)
    /\ trace = [seed |-> seed1, twin_seed |-> seed2, log |-> <<>>, twin_log |-> <<>>]
    /\ parsing = None /\ adapter = None /\ edits = None

\* lines 140-177 run by one caller from start to end on instance g: request
\* of fingerprint h, the backend answering outcome (<<s>> for the score s,
\* <<>> for an exception) if it is asked.  Gives the instance afterwards, the branch taken, the draw made
\* (<<>> if none was) and the value returned.
grade_seq(g, h, outcome) ==
  LET counted == [g.stats EXCEPT !.total_requests = @ + 1]
      draw == rng_next(g.rng)
      s == IF outcome = <<>> THEN g.default_score ELSE outcome[1]
      put == cache_insert(g.cache, g.cache_order, h, s)
      kept == evict_if_needed(put.cache, put.order, g.cache_size)
  IN  IF h \in DOMAIN g.cache
      THEN [g |-> [g EXCEPT !.stats = [counted EXCEPT !.cache_hits = @ + 1],
                            !.cache_order = touch(g.cache_order, h)],
            decision |-> "hit", draw |-> <<>>, ret |-> g.cache[h]]
      ELSE IF should_skip(draw, g.sample_rate)
      THEN [g |-> [g EXCEPT !.stats = [counted EXCEPT !.sampled_out = @ + 1],
                            !.rng = draw],
            decision |-> "sampled_out", draw |-> <<draw>>, ret |-> g.default_score]
      ELSE [g |-> [g EXCEPT !.stats = [counted EXCEPT !.api_calls = @ + 1],
                            !.rng = draw,
                            !.cache = kept.cache,
                            !.cache_order = kept.order],
            decision |-> "graded", draw |-> <<draw>>, ret |-> s]

\* mutant: the lock is an attribute of the class, one for every instance
twin_lock_of_class(g) == lock = NoTask

\* asyncio.Lock.locked() of the second instance's own lock is false
twin_lock_free(g) == g.lock = NoTask

\* one whole grade call on the second instance
TwinGrade(c, outcome) ==
  /\ twin_lock_free(twin)
  /\ twin.stats.total_requests < MaxCalls - 1
  /\ LET r == grade_seq(twin, hash_code(c), outcome) IN
     /\ twin' = r.g
     /\ trace' = [trace EXCEPT !.twin_log =
                    Append(@, <<hash_code(c), r.draw, r.decision>>)]
  /\ UNCHANGED <<config, shared, lock, pc, locals, uses, hist, parsing,
                 invoked, adapter, edits>>

\* history: what the first instance decided for each request
ObserveDecisions ==
  IF Hit(1)
  THEN trace' = [trace EXCEPT !.log = Append(@, <<code_hash[1], <<>>, "hit">>)]
  ELSE IF pc[1] = "check" /\ pc'[1] = "returned"
  THEN trace' = [trace EXCEPT !.log =
                   Append(@, <<code_hash[1], <<rng'>>, "sampled_out">>)]
  ELSE IF pc[1] = "check" /\ pc'[1] = "backend"
  THEN trace' = [trace EXCEPT !.log = Append(@, <<code_hash[1], <<rng'>>, "graded">>)]
  ELSE UNCHANGED trace

PairOutcomes == { <<>> } \cup { <<s>> : s \in ConcScores }

First(A) ==
  /\ A /\ ObserveUses /\ ObserveDecisions /\ ObserveInvocations
  /\ UNCHANGED <<hist, twin, parsing, adapter, edits>>

PairNext ==
  \/ First(\E c \in ConcCodes, q \in ConcQuestions : Call(1, c, q, MaxCalls - 1))
  \/ First(Acquire1(1))
  \/ First(Count(1))
  \/ First(CacheHit(1))
  \/ First(SampledOut(1))
  \/ First(SampledIn(1))
  \/ First(\E s \in ConcScores : BackendReturns(1, s))
  \/ First(BackendRaises(1))
  \/ First(Acquire2(1))
  \/ First(AddToCache(1))
  \/ First(Evict(1))
  \/ First(Done(1))
  \/ \E c \in ConcCodes, outcome \in PairOutcomes : TwinGrade(c, outcome)

SpecPair == PairInit /\ [][PairNext]_vars

\* ------------------------------------------------------ the sampler's draws
\* one instance built with a seed or none, driven by one caller; the seed,
\* the state random.Random(seed) starts in and every decision are recorded
DrawsInit ==
  \E rate \in ValidSampleRates, size \in ValidCacheSizes, dflt \in DefaultScores,
     seed \in Seeds, state \in 0..(RngMod - 1) :
    /\ Random(seed, state)
    /\ Construct(rate, size, dflt, state)
    /\ trace = [seed |-> seed, state |-> state, log |-> <<>>]
    /\ twin = None /\ parsing = None /\ adapter = None /\ edits = None

DrawsNext ==
  \/ First(\E c \in ConcCodes, q \in ConcQuestions : Call(1, c, q, MaxCalls))
  \/ First(Acquire1(1))
  \/ First(Count(1))
  \/ First(CacheHit(1))
  \/ First(SampledOut(1))
  \/ First(SampledIn(1))
  \/ First(\E s \in ConcScores : BackendReturns(1, s))
  \/ First(BackendRaises(1))
  \/ First(Acquire2(1))
  \/ First(AddToCache(1))
  \/ First(Evict(1))
  \/ First(Done(1))

SpecDraws == DrawsInit /\ [][DrawsNext]_vars

\* --------------------------------------- any constructible configuration
\* __init__ stores its parameters unchecked, so these graders exist too
AnySampleRates == ValidSampleRates \cup {-1, RngMod + 1}
AnyCacheSizes == ValidCacheSizes \cup {-1, 0}

AnyInit ==
  /\ \E rate \in AnySampleRates, size \in AnyCacheSizes,
        dflt \in DefaultScores, seed_state \in 0..(RngMod - 1) :
       Construct(rate, size, dflt, seed_state)
  /\ Alone

AnyNext ==
  \/ Solo(\E c \in ConcCodes, q \in ConcQuestions : Call(1, c, q, MaxCalls))
  \/ Solo(Acquire1(1))
  \/ Solo(Count(1))
  \/ Solo(CacheHit(1))
  \/ Solo(SampledOut(1))
  \/ Solo(SampledIn(1))
  \/ Solo(\E s \in BackendScores : BackendReturns(1, s))
  \/ Solo(BackendRaises(1))
  \/ Solo(Acquire2(1))
  \/ Solo(AddToCache(1))
  \/ Solo(Evict(1))
  \/ Solo(Done(1))

SpecAny == AnyInit /\ [][AnyNext]_vars

\* ======================================================= claude_code_qual.py
\* The judge's raw output as a sequence of tokens <<kind, text>>: the JSON
\* punctuation, string literals, bare numeric literals, null, and words of
\* prose.  text is the literal's characters ("score" is kept as one unit).
\* Whitespace between tokens is not kept: json.loads and both regular
\* expressions skip it.  Scores read from text are in hundredths.
LBRACE == <<"{", <<>>>>
RBRACE == <<"}", <<>>>>
COLON == <<":", <<>>>>
COMMA == <<",", <<>>>>
NULL == <<"null", <<>>>>
Str(chars) == <<"str", chars>>
Num(chars) == <<"num", chars>>
Word(chars) == <<"word", chars>>
KEY == Str(<<"score">>)
Kind(tok) == tok[1]
Text(tok) == tok[2]

Digits == <<"0", "1", "2", "3", "4", "5", "6", "7", "8", "9">>
IsDigit(c) == c \in Range(Digits)
DigitVal(c) == (CHOOSE n \in 1..Len(Digits) : Digits[n] = c) - 1

RECURSIVE to_int(_)
\* int() of a run of digits; 0 for the empty run
to_int(chars) ==
  IF chars = <<>> THEN 0
  ELSE 10 * to_int(SubSeq(chars, 1, Len(chars) - 1)) + DigitVal(chars[Len(chars)])

Unsigned(chars) == IF chars # <<>> /\ Head(chars) = "-" THEN Tail(chars) ELSE chars
DotAt(chars) ==
  IF "." \in Range(chars)
  THEN CHOOSE i \in 1..Len(chars) :
         chars[i] = "." /\ \A j \in 1..(i - 1) : chars[j] # "."
  ELSE Len(chars) + 1
IntPart(chars) == SubSeq(chars, 1, DotAt(chars) - 1)
FracPart(chars) == SubSeq(chars, DotAt(chars) + 1, Len(chars))
AllDigits(chars) == \A i \in 1..Len(chars) : IsDigit(chars[i])

\* the text float() accepts: an optional sign, digits with at most one point,
\* at least one digit (exponents, inf and nan are outside the inputs)
float_accepts(chars) ==
  LET u == Unsigned(chars) IN
    /\ AllDigits(IntPart(u)) /\ AllDigits(FracPart(u))
    /\ Len(IntPart(u)) + Len(FracPart(u)) >= 1

\* the literal json.loads accepts as a number: -?(0|[1-9]\d*)(\.\d+)?
json_number(chars) ==
  LET u == Unsigned(chars) IN
    /\ AllDigits(IntPart(u)) /\ AllDigits(FracPart(u))
    /\ Len(IntPart(u)) >= 1
    /\ Len(IntPart(u)) > 1 => Head(IntPart(u)) # "0"
    /\ "." \in Range(u) => Len(FracPart(u)) >= 1

\* float(text), in hundredths (two fractional digits are kept)
float_value(chars) ==
  LET u == Unsigned(chars)
      f == FracPart(u)
      f2 == IF Len(f) = 0 THEN <<"0", "0">>
            ELSE IF Len(f) = 1 THEN <<f[1], "0">>
            ELSE SubSeq(f, 1, 2)
      magnitude == 100 * to_int(IntPart(u)) + to_int(f2)
  IN  IF u = chars THEN magnitude ELSE 0 - magnitude

\* what json.loads builds: a number, a string, None, or a dict given as its
\* keys and values in the order of the text
JNull == [t |-> "null", chars |-> <<>>, keys |-> <<>>, vals |-> <<>>]
JNum(chars) == [t |-> "num", chars |-> chars, keys |-> <<>>, vals |-> <<>>]
JStr(chars) == [t |-> "str", chars |-> chars, keys |-> <<>>, vals |-> <<>>]
JDict(keys, vals) == [t |-> "dict", chars |-> <<>>, keys |-> keys, vals |-> vals]

Bad == [ok |-> FALSE, next |-> 0, val |-> JNull]
Ok(next, val) == [ok |-> TRUE, next |-> next, val |-> val]

RECURSIVE parse_value(_, _)
RECURSIVE parse_members(_, _, _, _)
\* the JSON value that starts at token i, and the position after it
parse_value(toks, i) ==
  IF i > Len(toks) THEN Bad
  ELSE IF Kind(toks[i]) = "num"
  THEN IF json_number(Text(toks[i])) THEN Ok(i + 1, JNum(Text(toks[i]))) ELSE Bad
  ELSE IF Kind(toks[i]) = "str" THEN Ok(i + 1, JStr(Text(toks[i])))
  ELSE IF Kind(toks[i]) = "null" THEN Ok(i + 1, JNull)
  ELSE IF Kind(toks[i]) = "{"
  THEN IF i + 1 <= Len(toks) /\ Kind(toks[i + 1]) = "}"
       THEN Ok(i + 2, JDict(<<>>, <<>>))
       ELSE parse_members(toks, i + 1, <<>>, <<>>)
  ELSE Bad

\* the members of an object from the key at token i on
parse_members(toks, i, keys, vals) ==
  IF i + 1 > Len(toks) \/ Kind(toks[i]) # "str" \/ Kind(toks[i + 1]) # ":"
  THEN Bad
  ELSE LET v == parse_value(toks, i + 2)
           ks == Append(keys, Text(toks[i]))
       IN  IF ~v.ok \/ v.next > Len(toks) THEN Bad
           ELSE IF Kind(toks[v.next]) = "}"
           THEN Ok(v.next + 1, JDict(ks, Append(vals, v.val)))
           ELSE IF Kind(toks[v.next]) = ","
           THEN parse_members(toks, v.next + 1, ks, Append(vals, v.val))
           ELSE Bad

\* json.loads: one value and nothing after it, else JSONDecodeError
json_loads(toks) ==
  LET r == parse_value(toks, 1) IN
    IF r.ok /\ r.next = Len(toks) + 1 THEN r ELSE Bad

\* how a step of the parser ends: with a score, with an exception leaving the
\* function, or by going on to what follows
Value(v) == [kind |-> "value", v |-> v]
Error(name) == [kind |-> name, v |-> 0]
GoOn == [kind |-> "next", v |-> 0]

\* data[key] of a dict: the last member with that key
dict_get(data, key) ==
  data.vals[CHOOSE i \in 1..Len(data.keys) :
              data.keys[i] = key /\ \A j \in (i + 1)..Len(data.keys) : data.keys[j] # key]

\* float(x) for a value json.loads built
to_float(x) ==
  IF x.t = "num" THEN Value(float_value(x.chars))
  ELSE IF x.t = "str"
  THEN IF float_accepts(x.chars) THEN Value(float_value(x.chars))
       ELSE Error("ValueError")
  ELSE Error("TypeError")

\* `if "score" in data: return float(data["score"])` for what json.loads
\* built: a dict is searched by key; a string is searched as text and then
\* cannot be indexed by "score"; a number or None cannot be searched
score_in(data) ==
  IF data.t = "dict"
  THEN IF <<"score">> \in Range(data.keys)
       THEN to_float(dict_get(data, <<"score">>))
       ELSE GoOn
  ELSE IF data.t = "str"
  THEN IF "score" \in Range(data.chars) THEN Error("TypeError") ELSE GoOn
  ELSE Error("TypeError")

\* lines 78-83: the whole output as JSON; only JSONDecodeError is caught
parse_whole(toks) ==
  LET r == json_loads(toks) IN IF r.ok THEN score_in(r.val) ELSE GoOn

\* re.search(r"\{[^{}]*\"score\"[^{}]*\}"): where the leftmost match starts
\* and ends, <<>> if there is none
Brace(tok) == Kind(tok) \in {"{", "}"}
EmbeddedAt(toks, i, j) ==
  /\ i < j /\ Kind(toks[i]) = "{" /\ Kind(toks[j]) = "}"
  /\ \A k \in (i + 1)..(j - 1) : ~Brace(toks[k])
  /\ \E k \in (i + 1)..(j - 1) : toks[k] = KEY
embedded_match(toks) ==
  LET starts == { i \in 1..Len(toks) : \E j \in 1..Len(toks) : EmbeddedAt(toks, i, j) }
  IN  IF starts = {} THEN <<>>
      ELSE LET i == CHOOSE a \in starts : \A b \in starts : a <= b
               j == CHOOSE b \in 1..Len(toks) : EmbeddedAt(toks, i, b)
           IN  <<i, j>>

\* lines 86-93: the first embedded object; JSONDecodeError, KeyError and
\* ValueError are caught
parse_embedded(toks) ==
  LET m == embedded_match(toks) IN
    IF m = <<>> THEN GoOn
    ELSE LET r == json_loads(SubSeq(toks, m[1], m[2]))
             s == IF r.ok THEN score_in(r.val) ELSE GoOn
         IN  IF s.kind = "ValueError" THEN GoOn ELSE s

\* re.search(r"\"score\"\s*:\s*([\d.]+)"): the text of group 1 of the
\* leftmost match, <<>> if there is none
BareAt(toks, i) ==
  /\ i + 2 <= Len(toks)
  /\ toks[i] = KEY /\ toks[i + 1] = COLON
  /\ Kind(toks[i + 2]) = "num"
  /\ Head(Text(toks[i + 2])) # "-"
bare_match(toks) ==
  LET starts == { i \in 1..Len(toks) : BareAt(toks, i) } IN
    IF starts = {} THEN <<>>
    ELSE Text(toks[(CHOOSE a \in starts : \A b \in starts : a <= b) + 2])

\* lines 96-98: the number after a "score": token; nothing is caught
parse_bare(toks) ==
  LET g == bare_match(toks) IN
    IF g = <<>> THEN GoOn
    ELSE IF float_accepts(g) THEN Value(float_value(g))
    ELSE Error("ValueError")

\* mutant: the lenient strategy is tried first
first_strategy_lenient == "embedded"

\* parse_score_from_response begins with the strict strategy (line 78)
first_strategy == "whole"

\* the parser has been called with the judge's output
Parsing(toks) ==
  parsing = [raw |-> toks, pc |-> first_strategy, by |-> None, result |-> GoOn]

\* a strategy ends: return its value, let its exception out, or go on
Ends(strategy, outcome, following) ==
  parsing' =
    IF outcome.kind = "value"
    THEN [parsing EXCEPT !.pc = "returned", !.by = strategy, !.result = outcome]
    ELSE IF outcome.kind = "next"
    THEN [parsing EXCEPT !.pc = following]
    ELSE [parsing EXCEPT !.pc = "raised", !.by = strategy, !.result = outcome]

\* lines 78-83
ParseWhole ==
  /\ parsing.pc = "whole"
  /\ Ends("whole", parse_whole(parsing.raw), "embedded")
  /\ UNCHANGED grader

\* lines 86-93
ParseEmbedded ==
  /\ parsing.pc = "embedded"
  /\ Ends("embedded", parse_embedded(parsing.raw), "bare")
  /\ UNCHANGED grader

\* lines 96-98
ParseBare ==
  /\ parsing.pc = "bare"
  /\ Ends("bare", parse_bare(parsing.raw), "none")
  /\ UNCHANGED grader

\* line 100: raise RuntimeError with the raw output
ParseFails ==
  /\ parsing.pc = "none"
  /\ parsing' = [parsing EXCEPT !.pc = "raised", !.by = "none",
                                !.result = Error("RuntimeError")]
  /\ UNCHANGED grader

\* the judge's outputs: one or two pieces, with or without prose around them
\* `Sure! Here you go: {"score": 0.73} Thanks.`
Sure == <<Word(<<"Sure!">>), Word(<<"Here">>), Word(<<"you">>), Word(<<"go:">>)>>
Thanks == <<Word(<<"Thanks.">>)>>
Object(value) == <<LBRACE, KEY, COLON>> \o value \o <<RBRACE>>
Values ==
  { <<Num(<<"0", ".", "7", "3">>)>>,             \* 0.73
    <<Num(<<"1", ".", "7">>)>>,                  \* 1.7
    <<Num(<<"-", "0", ".", "5">>)>>,             \* -0.5
    <<Num(<<".", "5">>)>>,                       \* .5
    <<Num(<<"1", ".", "2", ".", "3">>)>>,        \* 1.2.3
    <<Str(<<"0", ".", "9">>)>>,                  \* "0.9"
    <<Str(<<"a", "b", "c">>)>>,                  \* "abc"
    <<NULL>>,                                    \* null
    <<LBRACE, KEY, COLON, Num(<<"0", ".", "2">>), RBRACE>> }   \* {"score": 0.2}
Pieces ==
  { Object(v) : v \in Values }
    \cup { <<KEY, COLON>> \o v : v \in Values }
    \cup Values
    \cup { <<KEY>>,
           <<LBRACE, Str(<<"note">>), COLON, KEY, RBRACE>>,
           <<LBRACE, Str(<<"a">>), COLON, LBRACE, KEY, COLON,
             Num(<<"0", ".", "1">>), RBRACE, COMMA, KEY, COLON,
             Num(<<"0", ".", "9">>), RBRACE>>,
           <<LBRACE, KEY, COLON, Num(<<"0", ".", "1">>), COMMA, KEY, COLON,
             Num(<<"0", ".", "9">>), RBRACE>> }
TwoPieces ==
  { Object(v) \o <<KEY, COLON, Num(<<"0", ".", "4">>)>> : v \in Values }
    \cup { Object(v) \o Object(<<Num(<<"0", ".", "4">>)>>) : v \in Values }
RawOutputs ==
  { pre \o piece \o post :
      pre \in {<<>>, Sure}, piece \in Pieces \cup TwoPieces \cup {<<>>},
      post \in {<<>>, Thanks} }

ParserInit ==
  /\ Construct(RngMod, 1, 0, 0)
  /\ twin = None /\ trace = None /\ adapter = None /\ edits = None
  /\ \E toks \in RawOutputs : Parsing(toks)

ParserNext == ParseWhole \/ ParseEmbedded \/ ParseBare \/ ParseFails

SpecParser == ParserInit /\ [][ParserNext]_vars

\* ============================ claude_code_qual.py and gemini_code_qual.py
\* The two adapters: run the judge's command line program, read a score from
\* what it printed, clamp it.  adapter.which names the adapter; message holds
\* what the text of a raised error carries (<<>> for a part it does not carry).
ReturnCodes == {0, 1, -9}
StdErrs == { <<>>, <<Word(<<"quota">>), Word(<<"exceeded">>)>> }

NoMessage == [returncode |-> <<>>, stdout |-> <<>>, stderr |-> <<>>]

Adapter(which) ==
  [which |-> which, pc |-> "call", returncode |-> 0, stdout |-> <<>>,
   stderr |-> <<>>, data |-> <<>>, score |-> <<>>, result |-> <<>>,
   error |-> None, message |-> NoMessage]

\* mutant: only a positive exit status counts as a failure
cli_failed_positive(returncode) == returncode > 0

\* `if result.returncode != 0`
cli_failed(returncode) == returncode # 0

\* subprocess.run(...) ended with this status and output: the error of
\* call_claude_cli / call_gemini_cli, or stdout handed on to `following`
run_cli(returncode, out, err, following) ==
  IF cli_failed(returncode)
  THEN [adapter EXCEPT !.pc = "raised", !.returncode = returncode,
                       !.stdout = out, !.stderr = err, !.error = "RuntimeError",
                       !.message = [returncode |-> <<returncode>>,
                                    stdout |-> <<out>>, stderr |-> <<err>>]]
  ELSE [adapter EXCEPT !.pc = following, !.returncode = returncode,
                       !.stdout = out, !.stderr = err]

\* min(a, b) and max(a, b) of Python: the first of the smallest / largest
py_min(a, b) == IF b < a THEN b ELSE a
py_max(a, b) == IF b > a THEN b ELSE a

\* mutant: only negative scores are clamped
clamp_floor_only(x) == py_max(0, x)

\* max(0.0, min(1.0, score)), in hundredths
clamp(x) == py_max(0, py_min(100, x))

\* call_claude_cli, then the call of parse_score_from_response on its result
CallClaudeCli ==
  /\ adapter.which = "claude" /\ adapter.pc = "call"
  /\ \E returncode \in ReturnCodes, out \in RawOutputs, err \in StdErrs :
       /\ adapter' = run_cli(returncode, out, err, "parse")
       /\ parsing' = IF cli_failed(returncode) THEN parsing
                     ELSE [raw |-> out, pc |-> first_strategy, by |-> None,
                           result |-> GoOn]
  /\ UNCHANGED <<config, shared, lock, pc, locals, uses, hist, twin, trace,
                 invoked, edits>>

\* grade_code_with_claude line 114: the parser returned a score
ClaudeReturns ==
  /\ adapter.which = "claude" /\ adapter.pc = "parse"
  /\ parsing.pc = "returned"
  /\ adapter' = [adapter EXCEPT !.pc = "returned",
                                !.score = <<parsing.result.v>>,
                                !.result = <<clamp(parsing.result.v)>>]
  /\ UNCHANGED <<config, shared, lock, pc, locals, uses, hist, twin, trace,
                 invoked, edits, parsing>>

\* grade_code_with_claude line 113: what the parser raised goes to the caller;
\* the error of line 100 carries the raw output
ClaudeRaises ==
  /\ adapter.which = "claude" /\ adapter.pc = "parse"
  /\ parsing.pc = "raised"
  /\ adapter' = [adapter EXCEPT
                   !.pc = "raised", !.error = parsing.result.kind,
                   !.message = IF parsing.by = "none"
                               THEN [NoMessage EXCEPT !.stdout = <<parsing.raw>>]
                               ELSE NoMessage]
  /\ UNCHANGED <<config, shared, lock, pc, locals, uses, hist, twin, trace,
                 invoked, edits, parsing>>

\* call_gemini_cli
CallGeminiCli ==
  /\ adapter.which = "gemini" /\ adapter.pc = "call"
  /\ \E returncode \in ReturnCodes, out \in RawOutputs, err \in StdErrs :
       adapter' = run_cli(returncode, out, err, "loads")
  /\ UNCHANGED <<config, shared, lock, pc, locals, uses, hist, twin, trace,
                 invoked, edits, parsing>>

\* re.search(r"\{.*\}", raw, re.DOTALL): from the first "{" to the last "}"
\* after it, <<>> if there is none
greedy_match(toks) ==
  LET opens == { i \in 1..Len(toks) : Kind(toks[i]) = "{" }
      first == CHOOSE a \in opens : \A b \in opens : a <= b
      closes == { j \in 1..Len(toks) : Kind(toks[j]) = "}" /\ j > first }
  IN  IF opens = {} \/ closes = {} THEN <<>>
      ELSE <<first, CHOOSE a \in closes : \A b \in closes : a >= b>>

\* gemini lines 100-109: json.loads(raw); on JSONDecodeError the greedy match
\* is loaded instead, and a JSONDecodeError of that second json.loads is not
\* caught
gemini_loads(toks) ==
  LET r == json_loads(toks)
      m == greedy_match(toks)
      again == json_loads(SubSeq(toks, m[1], m[2]))
  IN  IF r.ok THEN [kind |-> "data", data |-> <<r.val>>]
      ELSE IF m = <<>> THEN [kind |-> "RuntimeError", data |-> <<>>]
      ELSE IF again.ok THEN [kind |-> "data", data |-> <<again.val>>]
      ELSE [kind |-> "JSONDecodeError", data |-> <<>>]

\* gemini lines 111-114: `if "score" not in data: raise KeyError`, then
\* float(data["score"])
gemini_score(data) ==
  LET s == score_in(data) IN IF s.kind = "next" THEN Error("KeyError") ELSE s

\* grade_code_with_gemini lines 100-109
GeminiLoads ==
  /\ adapter.which = "gemini" /\ adapter.pc = "loads"
  /\ LET r == gemini_loads(adapter.stdout) IN
       adapter' =
         IF r.kind = "data" THEN [adapter EXCEPT !.pc = "score", !.data = r.data]
         ELSE [adapter EXCEPT
                 !.pc = "raised", !.error = r.kind,
                 !.message = IF r.kind = "RuntimeError"
                             THEN [NoMessage EXCEPT !.stdout = <<adapter.stdout>>]
                             ELSE NoMessage]
  /\ UNCHANGED <<config, shared, lock, pc, locals, uses, hist, twin, trace,
                 invoked, edits, parsing>>

\* grade_code_with_gemini lines 111-117
GeminiScore ==
  /\ adapter.which = "gemini" /\ adapter.pc = "score"
  /\ LET s == gemini_score(adapter.data[1]) IN
       adapter' =
         IF s.kind = "value"
         THEN [adapter EXCEPT !.pc = "returned", !.score = <<s.v>>,
                              !.result = <<clamp(s.v)>>]
         ELSE [adapter EXCEPT !.pc = "raised", !.error = s.kind]
  /\ UNCHANGED <<config, shared, lock, pc, locals, uses, hist, twin, trace,
                 invoked, edits, parsing>>

\* parse_score_from_response as one function: the first strategy that does
\* not go on decides
parse_score_from_response(toks) ==
  LET a == parse_whole(toks)
      b == parse_embedded(toks)
      c == parse_bare(toks)
  IN  IF a.kind # "next" THEN a
      ELSE IF b.kind # "next" THEN b
      ELSE IF c.kind # "next" THEN c
      ELSE Error("RuntimeError")

\* one adapter is called once; no grader is involved
AdaptersInit ==
  /\ Construct(RngMod, 1, 0, 0)
  /\ twin = None /\ trace = None /\ edits = None
  /\ parsing = [raw |-> <<>>, pc |-> "idle", by |-> None, result |-> GoOn]
  /\ \E which \in {"claude", "gemini"} : adapter = Adapter(which)

AdaptersNext ==
  \/ CallClaudeCli
  \/ ParseWhole
  \/ ParseEmbedded
  \/ ParseBare
  \/ ParseFails
  \/ ClaudeReturns
  \/ ClaudeRaises
  \/ CallGeminiCli
  \/ GeminiLoads
  \/ GeminiScore

SpecAdapters == AdaptersInit /\ [][AdaptersNext]_vars

\* ================================================ snippets that differ only
\* in comment text or whitespace runs
\* edits.a is a snippet; edits.b is made from it by editing the text of
\* single-line comments and the length or kind of whitespace runs.
\* edits.kept_lines tells that no edit so far added or removed a line break
\* in a whitespace run that follows a "#" on its line.  Once b is made, one
\* caller has a graded, then b.
MaxEdits == 2

Snippets ==
  { <<"x", " ", "#", "c", "\n", "y">>,                       \* x #c / y
    <<"\"", "\"", "\"", "\t", "\"", "\"", "\"", "\n", "z">>, \* """<tab>""" / z
    <<"#", "\n", "'", "'", "'", "#", "\n", "'", "'", "'">> } \* # / '''# / '''
CommentChars == {"d", " ", "#"}

\* position i of s comes after a "#" on the same line
after_marker(s, i) ==
  \E j \in 1..(i - 1) : s[j] = "#" /\ \A k \in j..(i - 1) : s[k] # "\n"

\* the character at i belongs to the text of a single-line comment
comment_text(s, i) == after_marker(s, i) /\ s[i] # "\n"

\* the whitespace run around position i: where it starts, and whether it
\* holds a line break
run_start(s, i) ==
  CHOOSE a \in 1..i : /\ \A k \in a..i : s[k] \in WS
                      /\ a = 1 \/ s[a - 1] \notin WS
run_end(s, i) ==
  CHOOSE b \in i..Len(s) : /\ \A k \in i..b : s[k] \in WS
                           /\ b = Len(s) \/ s[b + 1] \notin WS
run_breaks(s, i) == \E k \in run_start(s, i)..run_end(s, i) : s[k] = "\n"

insert_at(s, i, ch) == SubSeq(s, 1, i) \o <<ch>> \o SubSeq(s, i + 1, Len(s))
delete_at(s, i) == SubSeq(s, 1, i - 1) \o SubSeq(s, i + 1, Len(s))
replace_at(s, i, ch) == [s EXCEPT ![i] = ch]

\* the run at i of s became the run at j of t
keeps_line(s, i, t, j) ==
  after_marker(s, run_start(s, i)) => (run_breaks(s, i) <=> run_breaks(t, j))

Edited(t, kept) ==
  /\ edits.n < MaxEdits
  /\ pc[1] = "idle" /\ stats.total_requests = 0
  /\ edits' = [edits EXCEPT !.b = t, !.n = @ + 1, !.kept_lines = @ /\ kept]
  /\ UNCHANGED <<config, shared, lock, pc, locals, uses, hist, twin, trace,
                 parsing, invoked, adapter>>

\* a character of comment text is replaced by another
RewriteComment ==
  \E i \in 1..Len(edits.b), ch \in CommentChars :
    /\ comment_text(edits.b, i) /\ ch # edits.b[i]
    /\ Edited(replace_at(edits.b, i, ch), TRUE)

\* a character is added to the text of a comment
ExtendComment ==
  \E i \in 1..Len(edits.b), ch \in CommentChars :
    /\ edits.b[i] = "#" \/ comment_text(edits.b, i)
    /\ Edited(insert_at(edits.b, i, ch), TRUE)

\* a character is taken from the text of a comment
CutComment ==
  \E i \in 1..Len(edits.b) :
    /\ comment_text(edits.b, i)
    /\ Edited(delete_at(edits.b, i), TRUE)

\* a whitespace run gets longer
LengthenRun ==
  \E i \in 1..Len(edits.b) :
    /\ edits.b[i] \in WS
    /\ LET t == insert_at(edits.b, i, edits.b[i]) IN
         Edited(t, keeps_line(edits.b, i, t, i))

\* a whitespace run gets shorter, and stays a run
ShortenRun ==
  \E i \in 1..Len(edits.b) :
    /\ edits.b[i] \in WS
    /\ run_start(edits.b, i) < run_end(edits.b, i)
    /\ LET t == delete_at(edits.b, i) IN
         Edited(t, keeps_line(edits.b, i, t, run_start(edits.b, i)))

\* a whitespace character becomes one of another kind
RekindRun ==
  \E i \in 1..Len(edits.b), w \in WS :
    /\ edits.b[i] \in WS /\ w # edits.b[i]
    /\ LET t == replace_at(edits.b, i, w) IN
         Edited(t, keeps_line(edits.b, i, t, i))

\* grade(a) is the caller's first call, grade(b) the second
NextSnippet == IF stats.total_requests = 0 THEN edits.a ELSE edits.b

NormInit ==
  /\ \E rate \in ValidSampleRates \ {0} : Construct(rate, 1, 0, 0)
  /\ twin = None /\ trace = None /\ parsing = None /\ adapter = None
  /\ \E s \in Snippets : edits = [a |-> s, b |-> s, n |-> 0, kept_lines |-> TRUE]

NormNext ==
  \/ RewriteComment
  \/ ExtendComment
  \/ CutComment
  \/ LengthenRun
  \/ ShortenRun
  \/ RekindRun
  \/ Solo(\E c \in {NextSnippet} : Call(1, c, None, 2))
  \/ Solo(Acquire1(1))
  \/ Solo(Count(1))
  \/ Solo(CacheHit(1))
  \/ Solo(SampledOut(1))
  \/ Solo(SampledIn(1))
  \/ Solo(\E s \in ConcScores : BackendReturns(1, s))
  \/ Solo(BackendRaises(1))
  \/ Solo(Acquire2(1))
  \/ Solo(AddToCache(1))
  \/ Solo(Evict(1))
  \/ Solo(Done(1))

SpecNorm == NormInit /\ [][NormNext]_vars

\* ================================================================ claims
\* the positions inside a with-block of grade()
CS == {"count", "check", "add", "evict"}

Min(a, b) == IF a < b THEN a ELSE b
LastN(seq, n) == SubSeq(seq, Len(seq) - n + 1, Len(seq))

\* C1: for every grader that can be constructed and every backend behaviour,
\* grade never raises, and a call whose backend invocation failed returns
\* default_score.  (Checked under SpecAny.)
C1_GradeNeverRaises ==
  \A t \in Tasks :
    /\ pc[t] # "raised"
    /\ (pc[t] = "returned" /\ path[t] = "failed") => ret[t] = <<default_score>>

\* C2: a backend failure is never cached: when a call whose backend
\* invocation failed returns, its fingerprint is absent from the cache.
\* (Checked for one sequential caller, so no other call can have put it.)
C2_FailureNotCached ==
  \A t \in Tasks :
    (pc[t] = "returned" /\ path[t] = "failed") => code_hash[t] \notin DOMAIN cache

\* C3: whenever no caller is inside a critical section, the cache holds at
\* most cache_size entries, under any interleaving of concurrent callers.
C3_SizeWithinCapacity ==
  lock = NoTask => Cardinality(DOMAIN cache) <= cache_size

\* C3 witness: the lock is free, more fingerprints were put than fit, and the
\* cache is exactly full.
C3_Witness ==
  /\ lock = NoTask
  /\ Len(uses) > cache_size
  /\ Cardinality(DOMAIN cache) = cache_size

\* C4: true LRU: outside a put, the cache holds exactly min(cache_size,
\* number of distinct fingerprints put) entries, and they are the most
\* recently used ones (a put or a cache hit is a use), in order of use.
C4_TrueLRU ==
  lock = NoTask =>
    LET n == Min(cache_size, Len(uses)) IN
      /\ Cardinality(DOMAIN cache) = n
      /\ cache_order = LastN(uses, n)
      /\ DOMAIN cache = Range(cache_order)

\* C4 witness: capacity 2, three distinct fingerprints put, the call before
\* the last put was a cache hit, and the fingerprint it hit is still cached.
C4_Witness ==
  /\ cache_size = 2
  /\ Len(uses) = 3
  /\ pc[1] = "returned" /\ path[1] = "graded"
  /\ hist.path = "hit"
  /\ hash_code(hist.code) \in DOMAIN cache
  /\ Cardinality(DOMAIN cache) = 2

\* C5: a caller whose backend invocation is in progress does not hold the
\* lock, so a caller waiting at the first with-block while nobody is inside
\* a critical section can take the lock.
C5_BackendOutsideLock ==
  \A t \in Tasks :
    pc[t] = "backend" =>
      /\ lock # t
      /\ \A u \in Tasks \ {t} :
           (pc[u] = "acquire1" /\ \A v \in Tasks : pc[v] \notin CS)
             => ENABLED Acquire1(u)

\* C5, the consequence: even if no backend invocation ever returns, a
\* caller waiting at the first with-block gets through it: it returns (hit or
\* sampled out) or starts its own backend invocation.
C5_OthersGetThrough ==
  \A u \in Tasks : (pc[u] = "acquire1") ~> (pc[u] \in {"returned", "backend"})

\* C5 witness: while one caller is in its backend invocation, another holds
\* the lock and is about to take a cache hit.
C5_Witness ==
  \E t, u \in Tasks :
    /\ pc[t] = "backend"
    /\ pc[u] = "check" /\ lock = u
    /\ code_hash[u] \in DOMAIN cache

\* a caller is inside a with-block exactly when it holds the lock, and at
\* most one caller is
C6_Mutex ==
  /\ \A t \in Tasks : pc[t] \in CS <=> lock = t
  /\ Cardinality({ t \in Tasks : pc[t] \in CS }) <= 1

\* C6: every read or write of the cache, the recency order, the generator
\* state or the counters is made by the caller holding the lock: the callers
\* exclude each other, and every step that changes one of the four is a step
\* of the lock holder.
C6_AccessUnderLock ==
  /\ []C6_Mutex
  /\ [][ shared' # shared => (lock \in Tasks /\ pc'[lock] # pc[lock]) ]_vars

\* C6 witness: one caller holds the lock in the middle of a put while the
\* other waits at the first with-block.
C6_Witness ==
  \E t, u \in Tasks :
    /\ pc[t] = "evict" /\ lock = t
    /\ pc[u] = "acquire1"

\* C7: a call that misses the cache and is sampled out adds one to
\* sampled_out and to nothing else, returns default_score without invoking
\* the backend, and leaves the cache and the recency order as they were, its
\* own fingerprint still absent.
C7_SampledOutFrame ==
  [][ \A t \in Tasks :
        ( /\ pc[t] = "check" /\ pc'[t] # "check"
          /\ code_hash[t] \notin DOMAIN cache
          /\ should_skip(rng', sample_rate) )
        => /\ stats' = [stats EXCEPT !.sampled_out = @ + 1]
           /\ pc'[t] = "returned"
           /\ ret'[t] = <<default_score>>
           /\ cache' = cache
           /\ cache_order' = cache_order
           /\ code_hash[t] \notin DOMAIN cache' ]_vars

\* C7 witness: with something cached, a request was sampled out and the next
\* request, for the same fingerprint, is in its backend invocation.
C7_Witness ==
  /\ pc[1] = "backend"
  /\ hist.path = "sampled_out"
  /\ hash_code(hist.code) = code_hash[1]
  /\ cache # EmptyCache

\* C8 as stated: two consecutive grade calls with identical code return the
\* same score, and api_calls grows by at most one across the two.
C8_SameCodeSameScore ==
  (pc[1] = "returned" /\ hist.calls >= 1 /\ hist.code = code[1])
    => /\ ret[1] = hist.ret
       /\ stats.api_calls - hist.api0 <= 1

\* C8 amended: for one sequential caller of a grader with capacity >= 1, two
\* consecutive grade calls with identical code, the first of which was not
\* sampled out, return the same score, and api_calls grows by at most one
\* across the two.
C8_SameCodeSameScoreUnlessSkipped ==
  ( /\ pc[1] = "returned" /\ hist.calls >= 1 /\ hist.code = code[1]
    /\ hist.path # "sampled_out" /\ cache_size >= 1 )
    => /\ ret[1] = hist.ret
       /\ stats.api_calls - hist.api0 <= 1

\* C8 witness: a graded call followed by a call with the same code, which
\* hits the cache and returns the score the first one returned.
C8_Witness ==
  /\ pc[1] = "returned" /\ path[1] = "hit"
  /\ hist.calls >= 1 /\ hist.code = code[1]
  /\ hist.path = "graded" /\ hist.ret \in { <<s>> : s \in BackendScores }
  /\ ret[1] = hist.ret

\* C9: with sample_rate = 1.0 no request is ever sampled out: sampled_out
\* stays 0 and every counted request is a cache hit, a backend call, or
\* still at its cache lookup.
C9_RateOneNeverSkips ==
  sample_rate = RngMod =>
    /\ stats.sampled_out = 0
    /\ \A t \in Tasks : path[t] # "sampled_out"
    /\ stats.total_requests =
         stats.cache_hits + stats.api_calls
           + Cardinality({ t \in Tasks : pc[t] = "check" })

\* C9 witness: sample_rate = 1.0, the only draw so far was the largest one
\* the generator gives, and the request is in its backend invocation.
C9_Witness ==
  /\ sample_rate = RngMod
  /\ rng = RngMod - 1
  /\ stats.api_calls = 1 /\ stats.total_requests = 1
  /\ \E t \in Tasks : pc[t] = "backend"

\* C10: with sample_rate = 0.0 no request reaches the backend, api_calls
\* stays 0, and every returned score is default_score.
C10_RateZeroNeverGrades ==
  sample_rate = 0 =>
    /\ stats.api_calls = 0
    /\ \A t \in Tasks : pc[t] # "backend"
    /\ \A t \in Tasks : pc[t] = "returned" => ret[t] = <<default_score>>

\* the range [0.0, 1.0] of a score, in tenths
UnitScores == 0..10

\* C12: every score grade returns from a backend result or from the cache,
\* and every score held in the cache, lies in [0,1], whatever the injected
\* backend returned.  (Checked for one sequential caller over BackendScores,
\* which holds the out-of-range value 1.7.)
C12_ScoresClamped ==
  /\ \A t \in Tasks :
       (pc[t] = "returned" /\ path[t] \in {"graded", "hit"}) => ret[t][1] \in UnitScores
  /\ \A h \in DOMAIN cache : cache[h] \in UnitScores

\* a configuration the constructor is required to reject
InvalidConfig == cache_size < 0 \/ sample_rate < 0 \/ sample_rate > RngMod

\* C13: an invalid configuration never produces an error later, during a
\* grade call (it would have been rejected at construction).  (Checked under
\* SpecAny, whose initial states are the graders __init__ really builds.)
C13_InvalidConfigNeverFailsACall ==
  InvalidConfig => \A t \in Tasks : pc[t] # "raised"

\* C14: on a fresh grader with sample_rate = 1.0, as long as every request so
\* far had the same fingerprint, the k-th sequential call leaves total_requests
\* at k, api_calls at 1, cache_hits at k-1 and sampled_out at 0; the first call
\* returns what the backend returned and every later one is a hit returning
\* the same score as the call before it.
C14_EndToEndStats ==
  (sample_rate = RngMod /\ pc[1] = "returned" /\ Len(uses) = 1) =>
    /\ stats.total_requests = hist.calls + 1
    /\ stats.api_calls = 1
    /\ stats.cache_hits = hist.calls
    /\ stats.sampled_out = 0
    /\ hist.calls = 0 => /\ path[1] \in {"graded", "failed"}
                         /\ path[1] = "graded" => ret[1] = score[1]
    /\ hist.calls >= 1 => /\ path[1] = "hit"
                          /\ ret[1] = hist.ret
                          /\ code_hash[1] = hash_code(hist.code)

\* C14 witness: the third grade of the same code returned the backend's 0.5
\* from the cache with stats (3 requests, 2 hits, 1 backend call).
C14_Witness ==
  /\ sample_rate = RngMod
  /\ pc[1] = "returned" /\ path[1] = "hit" /\ ret[1] = <<5>>
  /\ hist.calls = 2 /\ hist.code = code[1] /\ hist.path = "hit"
  /\ Len(uses) = 1
  /\ stats = [total_requests |-> 3, cache_hits |-> 2, sampled_out |-> 0,
              api_calls |-> 1]

\* C15: a call cancelled during its backend invocation ends there without a
\* score: the cancelling step leaves the cache, the recency order, the
\* generator, the counters and the lock as they were, the caller does not hold
\* the lock, and the only thing the call does afterwards is end.
C15_CancelLeavesNoTrace ==
  [][\A t \in Tasks :
       /\ (pc[t] = "backend" /\ path'[t] = "cancelled") =>
            /\ pc'[t] = "cancelled" /\ ret'[t] = <<Raised>>
            /\ UNCHANGED <<shared, lock>>
            /\ lock # t
       /\ (path[t] = "cancelled" /\ pc'[t] # pc[t]) =>
            /\ pc[t] = "cancelled" /\ pc'[t] = "idle"
            /\ UNCHANGED <<shared, lock>>]_vars

\* C15 witness: one call was cancelled in its backend invocation while another
\* caller holds the lock and the cache holds another fingerprint; the
\* cancelled call's fingerprint is not cached.
C15_Witness ==
  \E t, u \in Tasks :
    /\ t # u
    /\ pc[t] = "cancelled" /\ ret[t] = <<Raised>>
    /\ code_hash[t] \notin DOMAIN cache
    /\ cache # EmptyCache
    /\ lock = u

\* C16: the last put to land for a fingerprint wins: a put leaves the cache
\* holding the score it carried for its fingerprint, whatever was stored
\* before; no step other than a put of that fingerprint sets or changes the
\* score stored for it; and a hit returns the score the cache holds.
C16_LastPutWins ==
  [][/\ \A t \in Tasks : Put(t) => cache'[code_hash[t]] = score[t][1]
     /\ \A h \in DOMAIN cache' :
          (h \notin DOMAIN cache \/ cache'[h] # cache[h]) =>
            \E t \in Tasks : Put(t) /\ code_hash[t] = h
     /\ \A t \in Tasks : Hit(t) => ret'[t] = <<cache[code_hash[t]]>>]_vars

\* C16 witness: two concurrent callers graded one fingerprint with different
\* backend results; the first put (0.5) was overwritten by the second (1.7),
\* whose caller is still in its put.
C16_Witness ==
  \E t, u \in Tasks :
    /\ t # u
    /\ pc[u] = "returned" /\ path[u] = "graded" /\ ret[u] = <<5>>
    /\ pc[t] = "evict" /\ path[t] = "graded" /\ score[t] = <<17>>
    /\ code_hash[t] = code_hash[u]
    /\ stats.api_calls = 2
    /\ cache[code_hash[t]] = 17

\* C17: no coalescing: a request that missed the cache and whose draw passes
\* sampling can always go on to the backend, whether or not the same
\* fingerprint is already being graded, and api_calls counts every invocation
\* in flight.
C17_NoCoalescing ==
  /\ \A t \in Tasks :
       ( /\ pc[t] = "check"
         /\ code_hash[t] \notin DOMAIN cache
         /\ ~should_skip(rng_next(rng), sample_rate) ) => ENABLED SampledIn(t)
  /\ Cardinality({t \in Tasks : pc[t] = "backend"}) <= stats.api_calls

\* C17 witness: two backend invocations in flight for one uncached
\* fingerprint, both counted.
C17_Witness ==
  \E t, u \in Tasks :
    /\ t # u
    /\ pc[t] = "backend" /\ pc[u] = "backend"
    /\ code_hash[t] = code_hash[u]
    /\ code_hash[t] \notin DOMAIN cache
    /\ stats.api_calls = 2

\* C18: in every step each of the four counters is at least what it was:
\* no call, backend failure, cancellation or eviction lowers or resets one.
C18_CountersMonotone ==
  [][/\ stats'.total_requests >= stats.total_requests
     /\ stats'.cache_hits >= stats.cache_hits
     /\ stats'.sampled_out >= stats.sampled_out
     /\ stats'.api_calls >= stats.api_calls]_vars

\* C18 witness: after a backend failure and an eviction (two fingerprints
\* used, one cached), the counters still stand at what was counted.
C18_Witness ==
  /\ \E t \in Tasks : pc[t] = "returned" /\ path[t] = "failed"
  /\ Len(uses) = 2 /\ Cardinality(DOMAIN cache) = 1
  /\ stats.total_requests = 2 /\ stats.api_calls = 2

\* the requests of a log, and whether its first n are pairwise distinct
Fp(entry) == entry[1]
Decision(entry) == entry[3]
Distinct(log, n) == \A i, j \in 1..n : i # j => Fp(log[i]) # Fp(log[j])

\* C11: two graders built with the same seed (not None), sample_rate and
\* cache_size, each driven sequentially: at every position up to which both
\* received the same requests, all of distinct fingerprints, both made the
\* same draw and took the same sample/skip decision.
C11_SameSeedSameDecisions ==
  ( /\ trace.seed = trace.twin_seed /\ trace.seed # <<>>
    /\ twin.sample_rate = sample_rate /\ twin.cache_size = cache_size ) =>
    \A n \in 1..Min(Len(trace.log), Len(trace.twin_log)) :
      ( /\ \A i \in 1..n : Fp(trace.log[i]) = Fp(trace.twin_log[i])
        /\ Distinct(trace.log, n) ) =>
          /\ trace.log[n] = trace.twin_log[n]
          /\ Decision(trace.log[n]) \in {"sampled_out", "graded"}

\* C11 witness: same seed, both instances were given the same two distinct
\* fingerprints, and both graded one and skipped the other, in the same order.
C11_Witness ==
  /\ trace.seed = trace.twin_seed /\ trace.seed # <<>>
  /\ Len(trace.log) = 2 /\ trace.twin_log = trace.log
  /\ Distinct(trace.log, 2)
  /\ {Decision(trace.log[1]), Decision(trace.log[2])} = {"sampled_out", "graded"}

\* every hit of a log is on a fingerprint the same log graded before
OwnHits(log) ==
  \A i \in 1..Len(log) :
    Decision(log[i]) = "hit" =>
      \E j \in 1..(i - 1) : Fp(log[j]) = Fp(log[i]) /\ Decision(log[j]) = "graded"

Example1 == Sure \o Object(<<Num(<<"0", ".", "7", "3">>)>>) \o Thanks
Example2 == Object(<<Str(<<"0", ".", "9">>)>>)

\* C20: the Claude parser's strategies apply in the order whole output,
\* embedded object, bare number: when the whole output is a JSON object with
\* a usable score field that value is the result; a value from the embedded
\* object is returned only if the whole-output strategy got nothing, and a
\* value from the bare number only if both got nothing.  The first example
\* yields 0.73 and the second 0.9.
C20_StrategiesInOrder ==
  LET a == parse_whole(parsing.raw)
      b == parse_embedded(parsing.raw)
      c == parse_bare(parsing.raw)
      ended == parsing.pc \in {"returned", "raised"}
  IN  /\ (ended /\ a.kind = "value") =>
           parsing.pc = "returned" /\ parsing.by = "whole" /\ parsing.result = a
      /\ (parsing.pc = "returned" /\ parsing.by = "embedded") =>
           a.kind = "next" /\ parsing.result = b
      /\ (parsing.pc = "returned" /\ parsing.by = "bare") =>
           a.kind = "next" /\ b.kind = "next" /\ parsing.result = c
      /\ parsing.pc = "returned" => parsing.by \in {"whole", "embedded", "bare"}
      /\ (ended /\ parsing.raw = Example1) => parsing.result = Value(73)
      /\ (ended /\ parsing.raw = Example2) => parsing.result = Value(90)

\* C20 witness: the whole output parsed as an object with a score, and that
\* value was returned although the bare-number strategy reads another one.
C20_Witness ==
  /\ parsing.pc = "returned" /\ parsing.by = "whole"
  /\ parse_bare(parsing.raw).kind = "value"
  /\ parse_bare(parsing.raw) # parsing.result

\* C21: whenever the parser ends without a score, it ends with the
\* score-parse error raised at line 100 after all three strategies got
\* nothing; no other kind of error leaves the parser.
C21_OnlyParseErrorEscapes ==
  parsing.pc = "raised" =>
    /\ parsing.by = "none"
    /\ parsing.result = Error("RuntimeError")


\* C22: whenever grade_code_with_claude or grade_code_with_gemini returns, the
\* result lies in [0.0, 1.0]: it is 1.0 for a parsed score above 1, 0.0 for a
\* parsed score below 0, and the parsed score otherwise.
C22_AdaptersClamp ==
  adapter.pc = "returned" =>
    LET s == adapter.score[1]
        r == adapter.result[1]
    IN  /\ 0 <= r /\ r <= 100
        /\ s > 100 => r = 100
        /\ s < 0 => r = 0
        /\ (0 <= s /\ s <= 100) => r = s

\* noise containing `"score": 1.7` has been read by the Claude adapter
C22_Witness ==
  /\ adapter.which = "claude" /\ adapter.pc = "returned"
  /\ parsing.by = "bare"
  /\ adapter.score = <<170>> /\ adapter.result = <<100>>

\* C23: whenever the Claude adapter's chain of three strategies finds a score
\* in the judge's output, the Gemini adapter given the same output returns
\* that score, clamped.
C23_GeminiSameChain ==
  (/\ adapter.which = "gemini" /\ adapter.pc \in {"returned", "raised"}
   /\ adapter.returncode = 0
   /\ parse_score_from_response(adapter.stdout).kind = "value") =>
    /\ adapter.pc = "returned"
    /\ adapter.result = <<clamp(parse_score_from_response(adapter.stdout).v)>>

\* C24: in both adapters, once the judge's process has ended with a non-zero
\* status the call has failed with an error carrying the exit code, the
\* captured stdout and the captured stderr, and nothing was parsed.
C24_CliFailureRaises ==
  (adapter.pc # "call" /\ adapter.returncode # 0) =>
    /\ adapter.pc = "raised" /\ adapter.error = "RuntimeError"
    /\ adapter.message = [returncode |-> <<adapter.returncode>>,
                          stdout |-> <<adapter.stdout>>,
                          stderr |-> <<adapter.stderr>>]
    /\ parsing.pc = "idle"
    /\ adapter.data = <<>> /\ adapter.score = <<>> /\ adapter.result = <<>>

\* the judge was killed by a signal after printing to both streams
C24_Witness ==
  /\ adapter.pc = "raised" /\ adapter.returncode = -9
  /\ adapter.stdout # <<>> /\ adapter.stderr # <<>>

\* the caller's second call, grade(b), is past its cache lookup, and the
\* first call, grade(a), had its score cached
GradedThenLookedUp ==
  /\ stats.total_requests = 2
  /\ pc[1] \in {"backend", "acquire2", "add", "evict", "returned", "raised"}
  /\ hist.calls = 1 /\ hist.path = "graded"

\* C25 as stated: snippets that differ only in the text of single-line
\* comments or in the length or kind of whitespace runs have the same
\* fingerprint, so grading b after a has been cached is a cache hit.
C25_SameFingerprint ==
  /\ hash_code(edits.a) = hash_code(edits.b)
  /\ GradedThenLookedUp => path[1] = "hit"

\* C25 amended: they have the same fingerprint, and grading b after a has
\* been cached is a cache hit, as long as no whitespace run that follows a
\* "#" on its line gained or lost its line break.
C25_SameFingerprintKeptLines ==
  edits.kept_lines =>
    /\ hash_code(edits.a) = hash_code(edits.b)
    /\ GradedThenLookedUp => path[1] = "hit"

\* b was made from a by two edits that kept the line breaks, a was graded and
\* cached, and b's lookup was a hit
C25_Witness ==
  /\ edits.kept_lines /\ edits.n = MaxEdits /\ edits.a # edits.b
  /\ GradedThenLookedUp /\ path[1] = "hit"

\* C26: a grade call whose fingerprint is in the cache at lookup time does,
\* in one step made while it holds the lock, all of: add exactly one to
\* cache_hits and to no other counter, move the fingerprint to the end of the
\* recency order, return the score cached at that moment, and release the
\* lock; it invokes no backend and leaves the cached fingerprints and their
\* scores as they were.
C26_CacheHitFrame ==
  [][ \A t \in Tasks :
        ( /\ pc[t] = "check" /\ pc'[t] # "check"
          /\ code_hash[t] \in DOMAIN cache )
        => /\ lock = t /\ lock' = NoTask
           /\ stats' = [stats EXCEPT !.cache_hits = @ + 1]
           /\ cache_order' =
                Append(SelectSeq(cache_order, LAMBDA x : x # code_hash[t]),
                       code_hash[t])
           /\ Len(cache_order') = Len(cache_order)
           /\ pc'[t] = "returned"
           /\ ret'[t] = <<cache[code_hash[t]]>>
           /\ cache' = cache
           /\ invoked' = invoked ]_vars

\* C26 witness: with two fingerprints cached, the other one by a caller that
\* has just returned from its put, a caller has returned from a cache hit on
\* a backend score, its fingerprint now the most recently used.
C26_Witness ==
  \E t, u \in Tasks :
    /\ pc[t] = "returned" /\ path[t] = "hit" /\ ret[t][1] \in ConcScores
    /\ pc[u] = "returned" /\ path[u] = "graded"
    /\ cache_order = <<code_hash[u], code_hash[t]>>

\* C27: a put starts with the cache within capacity.  Its insertion step
\* removes nothing: for a cached fingerprint it overwrites the score, moves
\* the fingerprint to most recently used and leaves the size unchanged; for a
\* new one it adds one entry.  Its eviction step removes nothing if the cache
\* is within capacity (always so after an overwrite or a put into a non-full
\* cache) and otherwise removes exactly the least recently used entry.
C27_PutRemovesAtMostOne ==
  [][ \A t \in Tasks :
        LET h == code_hash[t]
            n == Cardinality(DOMAIN cache)
            removed == DOMAIN cache \ DOMAIN cache'
        IN
        /\ (pc[t] = "add" /\ pc'[t] # "add") =>
             /\ n <= cache_size
             /\ removed = {}
             /\ cache'[h] = score[t][1]
             /\ \A k \in DOMAIN cache \ {h} : cache'[k] = cache[k]
             /\ cache_order'[Len(cache_order')] = h
             /\ h \in DOMAIN cache =>
                  /\ DOMAIN cache' = DOMAIN cache
                  /\ Len(cache_order') = Len(cache_order)
             /\ h \notin DOMAIN cache =>
                  /\ DOMAIN cache' = DOMAIN cache \cup {h}
                  /\ Cardinality(DOMAIN cache') <= cache_size <=> n < cache_size
        /\ (pc[t] = "evict" /\ pc'[t] # "evict") =>
             /\ n <= cache_size => (cache' = cache /\ cache_order' = cache_order)
             /\ n > cache_size =>
                  /\ removed = {Head(cache_order)}
                  /\ cache_order' = Tail(cache_order)
                  /\ \A k \in DOMAIN cache' : cache'[k] = cache[k]
                  /\ Cardinality(DOMAIN cache') = cache_size
                  /\ h \in DOMAIN cache' ]_vars

\* C27 witness: capacity 1, two distinct fingerprints were put, and the
\* caller that made the second put has returned with its fingerprint the only
\* one cached.
C27_Witness ==
  \E t \in Tasks :
    /\ cache_size = 1 /\ Len(uses) = 2
    /\ pc[t] = "returned" /\ path[t] = "graded"
    /\ cache_order = <<code_hash[t]>>
    /\ DOMAIN cache = {code_hash[t]}

C29_StatsAccounting ==
  (\A t \in Tasks : pc[t] \notin {"count", "check"}) =>
    stats.total_requests =
      stats.cache_hits + stats.sampled_out + stats.api_calls

\* C29 witness: three requests were counted, one of each class, and nobody
\* is inside the first with-block.
C29_Witness ==
  /\ \A t \in Tasks : pc[t] \notin {"count", "check"}
  /\ stats.total_requests = 3
  /\ stats.cache_hits = 1 /\ stats.sampled_out = 1 /\ stats.api_calls = 1

\* C30: whenever the lock is free the recency order lists exactly the keys
\* of the cache, each once; and no call ever fails in list.remove.
C30_OrderMatchesCache ==
  /\ lock = NoTask =>
       /\ Range(cache_order) = DOMAIN cache
       /\ Len(cache_order) = Cardinality(DOMAIN cache)
  /\ \A t \in Tasks : pc[t] # "raised"

\* C30 witness: two callers graded the same fingerprint concurrently, so the
\* second put overwrote the first, with another fingerprint cached too.
C30_Witness ==
  \E t, u \in Tasks :
    /\ t # u /\ lock = NoTask
    /\ pc[t] = "returned" /\ pc[u] = "returned"
    /\ path[t] = "graded" /\ path[u] = "graded"
    /\ code_hash[t] = code_hash[u]
    /\ Len(cache_order) = 2

\* C31: with fair scheduling and a backend whose every invocation returns or
\* raises, every grade call that has started eventually returns a score, and
\* a lock that is held is eventually released.
C31_EveryCallReturns ==
  /\ \A t \in Tasks :
       (pc[t] = "acquire1") ~> (pc[t] = "returned" /\ ret[t] # Unset)
  /\ \A t \in Tasks : (lock = t) ~> (lock = NoTask)

\* C31 witness: every call allowed has been made and is over, one of them
\* after a backend failure and another by a cache hit, and the lock is free.
C31_Witness ==
  /\ lock = NoTask
  /\ stats.total_requests = MaxCalls
  /\ \A t \in Tasks : pc[t] \in {"idle", "returned"}
  /\ \E t, u \in Tasks :
       /\ pc[t] = "returned" /\ path[t] = "failed"
       /\ pc[u] = "returned" /\ path[u] = "hit"

\* C32: whatever questions the calls pass, while the fingerprint that a
\* finished call of some caller looked up or stored is cached, a call of
\* another caller with the same code (up to comments and whitespace) is a
\* cache hit: it returns the score cached for it and invokes no backend.
C32_QuestionNotInKey ==
  [][ \A t, u \in Tasks :
        ( /\ pc[t] = "check" /\ pc'[t] # "check"
          /\ t # u
          /\ pc[u] = "returned"
          /\ code_hash[u] \in DOMAIN cache
          /\ normalize_code(code[u]) = normalize_code(code[t]) )
        => /\ pc'[t] = "returned"
           /\ path'[t] = "hit"
           /\ ret'[t] = <<cache[code_hash[u]]>>
           /\ stats'.api_calls = stats.api_calls
           /\ invoked' = invoked ]_vars

\* C32 witness: of the only two calls made, one passed a question and the
\* other none; the first was graded by the backend and cached, and the second
\* returned the same score from the cache.
C32_Witness ==
  \E t, u \in Tasks :
    /\ stats.total_requests = 2 /\ stats.api_calls = 1 /\ invoked = 1
    /\ pc[u] = "returned" /\ path[u] = "graded"
    /\ pc[t] = "returned" /\ path[t] = "hit"
    /\ code[t] = code[u]
    /\ question[t] # question[u]
    /\ ret[t] = ret[u]

RECURSIVE nth_draw(_, _)
\* the n-th value random() returns from a generator that starts in state
nth_draw(state, n) == IF n = 0 THEN state ELSE rng_next(nth_draw(state, n - 1))

Misses(log) == SelectSeq(log, LAMBDA e : Decision(e) # "hit")

\* C33: the step that decides a request draws once if the fingerprint is not
\* cached and not at all if it is, and no other step of grade() draws; so
\* the generator has drawn once per cache miss, and the n-th miss was decided
\* by the n-th draw from the state the seed fixes, compared with sample_rate.
C33_OneDrawPerMiss ==
  [][ /\ (pc[1] = "check" /\ pc'[1] # "check") =>
           IF code_hash[1] \in DOMAIN cache
           THEN rng' = rng /\ Decision(trace.log'[Len(trace.log')]) = "hit"
           ELSE rng' = rng_next(rng)
      /\ pc[1] # "check" => rng' = rng
      /\ Random(trace.seed, trace.state)
      /\ LET misses == Misses(trace.log') IN
         /\ Len(misses) = stats'.sampled_out + stats'.api_calls
         /\ rng' = nth_draw(trace.state, Len(misses))
         /\ \A n \in 1..Len(misses) :
              LET draw == nth_draw(trace.state, n) IN
              /\ misses[n][2] = <<draw>>
              /\ Decision(misses[n]) =
                   IF should_skip(draw, sample_rate) THEN "sampled_out"
                   ELSE "graded" ]_vars

\* C33 witness: a seeded instance graded a first snippet, served it again
\* from the cache, and then skipped a second snippet on the second draw.
C33_Witness ==
  /\ trace.seed # <<>>
  /\ Len(trace.log) = 3
  /\ Decision(trace.log[1]) = "graded"
  /\ Decision(trace.log[2]) = "hit"
  /\ Decision(trace.log[3]) = "sampled_out"
  /\ trace.log[3][2] = <<nth_draw(trace.seed[1] % RngMod, 2)>>
  /\ rng = nth_draw(trace.seed[1] % RngMod, 2)
====
